---- MODULE Spec2Model ----
(***************************************************************************)
(* Model of app.py: the three-layer PDF text extraction                    *)
(* (pdfplumber -> pypdf -> Gemini OCR), the in-memory SESSIONS map and the *)
(* four request handlers (upload, analyze, chat, rewrite).                 *)
(*                                                                         *)
(* Text is a sequence of one-character strings.  Every handler runs on a   *)
(* worker thread of the transport's pool; a handler is cut into steps at   *)
(* its calls to the file system and to the remote service, which is where  *)
(* other handlers can run in between.                                      *)
(***************************************************************************)
EXTENDS Integers, Sequences, FiniteSets, TLC

(***************************************************************************)
(* Bounds of the model.                                                    *)
(***************************************************************************)
MaxRequests == 3    \* requests accepted in one behaviour
MaxPolls == 1       \* genai.get_file polls of one ocr_via_gemini call that
                    \* the history tells apart
MaxLen == 4         \* length of the texts clean_text alone is applied to

\* the worker threads of the transport's pool
Workers == {1, 2}

(***************************************************************************)
(* Strings.                                                                *)
(***************************************************************************)
Rep(c, n) == [i \in 1..n |-> c]

\* the characters str.strip() removes that occur in the model's texts
Whitespace == {" ", "\n", "\t"}

RECURSIVE lstrip(_)
lstrip(s) ==
    IF s # <<>> /\ Head(s) \in Whitespace THEN lstrip(Tail(s)) ELSE s

RECURSIVE rstrip(_)
rstrip(s) ==
    IF s # <<>> /\ s[Len(s)] \in Whitespace
    THEN rstrip(SubSeq(s, 1, Len(s) - 1))
    ELSE s

strip(s) == rstrip(lstrip(s))

\* str.replace(old, new): left to right, non-overlapping; old is not empty
RECURSIVE replace(_, _, _)
replace(s, old, new) ==
    IF Len(s) < Len(old) THEN s
    ELSE IF SubSeq(s, 1, Len(old)) = old
         THEN new \o replace(SubSeq(s, Len(old) + 1, Len(s)), old, new)
         ELSE <<Head(s)>> \o replace(Tail(s), old, new)

\* a cleaning that trims before it removes the asterisks
clean_text_strip_first(text) ==
    replace(replace(strip(text), <<"*", "*">>, <<>>), <<"*">>, <<>>)

\* lines 48-50: text.replace("**", "").replace("*", "").strip()
clean_text(text) ==
    strip(replace(replace(text, <<"*", "*">>, <<>>), <<"*">>, <<>>))

(***************************************************************************)
(* Documents.  A document is the bytes of an uploaded file; the two local  *)
(* parsers are functions of the bytes.  Opening the document either raises *)
(* (OpenError) or gives its pages; extracting one page gives a text        *)
(* (possibly empty) or raises (PageError).                                 *)
(***************************************************************************)
Opened(pages) == [raises |-> FALSE, pages |-> pages]
OpenError == [raises |-> TRUE, pages |-> <<>>]
Page(text) == [raises |-> FALSE, text |-> text]
PageError == [raises |-> TRUE, text |-> <<>>]

Docs == {"clean", "edge50", "l2only", "scanned", "corrupt"}

\* pdfplumber.open(file_path).pages, page.extract_text(...)
pdfplumber_pages(doc) ==
    CASE doc = "clean"   -> Opened(<< Page(Rep("a", 25)), PageError, Page(<<>>),
                                      Page(Rep("a", 25)) >>)
      [] doc = "edge50"  -> Opened(<< Page(Rep("a", 50)) >>)
      [] doc = "l2only"  -> Opened(<< PageError, Page(Rep("a", 20)) >>)
      [] doc = "scanned" -> Opened(<< Page(<<>>), Page(<<>>) >>)
      [] doc = "corrupt" -> OpenError

\* PdfReader(file_path).pages, page.extract_text()
pypdf_pages(doc) ==
    CASE doc = "clean"   -> Opened(<< Page(Rep("b", 60)) >>)
      [] doc = "edge50"  -> Opened(<< Page(<<" ">> \o Rep("b", 50) \o <<" ">>) >>)
      [] doc = "l2only"  -> Opened(<< Page(Rep("b", 30)), PageError,
                                      Page(Rep("b", 20)) >>)
      [] doc = "scanned" -> Opened(<< Page(<<>>) >>)
      [] doc = "corrupt" -> OpenError

\* the page loop of a layer: full_text += text + "\n" for every page whose
\* extraction did not raise and gave a non-empty text
RECURSIVE page_loop(_, _)
page_loop(full_text, pages) ==
    IF pages = <<>> THEN full_text
    ELSE IF Head(pages).raises \/ Head(pages).text = <<>>
         THEN page_loop(full_text, Tail(pages))
         ELSE page_loop(full_text \o Head(pages).text \o <<"\n">>, Tail(pages))

\* a whole layer, started with an empty full_text: a crash on open leaves it
\* empty
layer_text(opened) ==
    IF opened.raises THEN <<>> ELSE page_loop(<<>>, opened.pages)

\* a verification that asks for one character more
layer1_verified_51(full_text) == Len(strip(full_text)) > 51

\* line 99: the "Verification" after layer 1
layer1_verified(full_text) == Len(strip(full_text)) > 50

\* a verification that forgets to strip
layer2_verified_unstripped(full_text) == Len(full_text) > 50

\* line 118: the same test after layer 2
layer2_verified(full_text) == Len(strip(full_text)) > 50

(***************************************************************************)
(* Inputs of the requests and answers of the remote service.               *)
(***************************************************************************)
Filenames == {"a.pdf", "b.pdf"}

\* states of an uploaded file at the remote service
JobStates == {"PROCESSING", "READY", "FAILED"}

\* response.text of the transcription request
OcrTexts == { <<>>, Rep("c", 9), Rep(" ", 10), Rep("c", 10) }

\* the documents and transcriptions of the runs with concurrent requests
ConcDocs == {"clean", "scanned"}
ConcOcrTexts == { <<>>, Rep("c", 10) }

Queries == { <<"q", "1">>, <<"q", "2">> }

\* response.text of a chat, analyze or rewrite request
ChatAnswers == { <<"*", "*", "o", "k", "*", "*", "\n">>, <<" ", "n", "*", "o">> }
\* BT stands for the backquote character
BT == "^"
AnalyzeAnswers == { <<" ", BT, BT, BT, "j", "s", "o", "n", "{", "*", "}", BT, BT, BT, "\n">> }
Clauses == { <<"c", "l">> }

\* the outcome of a call that may raise
Raise == "Raise"
Returns(value) == [raises |-> FALSE, value |-> value]
Raises == [raises |-> TRUE, value |-> Raise]
Outcomes(values) == {Returns(v) : v \in values} \cup {Raises}

\* a session id that no upload drew
Unknown == 0

NoRequest == [op |-> "none"]
NoSession == 0 - 1
NoJob == "NoJob"
NoFile == "NoFile"
NoResp == [status |-> 0]

VARIABLES
    SESSIONS,       \* session_id -> [contract_text, chat_history, filename]
    files,          \* the uploads directory: filename -> bytes stored there
    pc,             \* where each worker is in its handler
    request,        \* the request the worker is handling
    session_id,     \* upload_contract: the uuid4 drawn by the worker
    full_text,      \* extract_text_from_pdf: the text accumulated so far
    uploaded_file,  \* ocr_via_gemini: state of the uploaded file
    contract_text,  \* upload_contract: what extract_text_from_pdf returned
    clean_response, \* chat: the cleaned answer
    resp,           \* the response of the handler
    trace,          \* history: the collaborators the request called, in order
    generated,      \* history: the request made a text-generation request
    chatLog,        \* history: the chat calls that returned, in that order
    issued,         \* history: session ids drawn so far
    nRequests,      \* history: requests accepted
    cleaned         \* clean_text alone: an input, then the results of
                    \* applying clean_text to it once and twice

vars == << SESSIONS, files, pc, request, session_id, full_text, uploaded_file,
           contract_text, clean_response, resp, trace, generated, chatLog,
           issued, nRequests, cleaned >>

\* an identifier counted from the sessions stored so far
uuid4_from_store == Cardinality(DOMAIN SESSIONS) + 1

\* uuid.uuid4(): an identifier that was not drawn before (a collision of two
\* random 122-bit identifiers is not modelled)
uuid4 == Cardinality(issued) + 1

\* session ids a client may send: the ones drawn so far and an unknown one
IdInputs == issued \cup {Unknown}

Constructed ==
    /\ SESSIONS = << >>
    /\ files = [f \in Filenames |-> NoFile]
    /\ pc = [w \in Workers |-> "idle"]
    /\ request = [w \in Workers |-> NoRequest]
    /\ session_id = [w \in Workers |-> NoSession]
    /\ full_text = [w \in Workers |-> <<>>]
    /\ uploaded_file = [w \in Workers |-> NoJob]
    /\ contract_text = [w \in Workers |-> <<>>]
    /\ clean_response = [w \in Workers |-> <<>>]
    /\ resp = [w \in Workers |-> NoResp]
    /\ trace = [w \in Workers |-> <<>>]
    /\ generated = [w \in Workers |-> FALSE]
    /\ chatLog = <<>>
    /\ issued = {}
    /\ nRequests = 0

\* the state after the module was imported
Init == Constructed /\ cleaned = <<>>

\* the pool hands a request to a free worker: the first one
Accept(w) ==
    /\ pc[w] = "idle"
    /\ \A v \in Workers : v < w => pc[v] # "idle"
    /\ nRequests < MaxRequests
    /\ nRequests' = nRequests + 1

\* the handler returns or raises: its frame is gone, the response is left
\* for the transport
Return(w, response) ==
    /\ pc' = [pc EXCEPT ![w] = "done"]
    /\ resp' = [resp EXCEPT ![w] = response]
    /\ session_id' = [session_id EXCEPT ![w] = NoSession]
    /\ full_text' = [full_text EXCEPT ![w] = <<>>]
    /\ uploaded_file' = [uploaded_file EXCEPT ![w] = NoJob]
    /\ contract_text' = [contract_text EXCEPT ![w] = <<>>]
    /\ clean_response' = [clean_response EXCEPT ![w] = <<>>]
    /\ trace' = [trace EXCEPT ![w] = <<>>]

\* model.generate_content(...) is called
Generate(w) == generated' = [generated EXCEPT ![w] = TRUE]

\* the worker's request called a collaborator
Called(w, event) == trace' = [trace EXCEPT ![w] = Append(@, event)]

(***************************************************************************)
(* upload_contract, lines 132-137: draw the session id, copy the request's *)
(* bytes to uploads/<filename>.                                            *)
(***************************************************************************)
UploadStart(w, docs) ==
    /\ Accept(w)
    /\ \E fn \in Filenames, bytes \in docs :
          /\ request' = [request EXCEPT ![w] = [op |-> "upload", filename |-> fn, file |-> bytes]]
          /\ files' = [files EXCEPT ![fn] = bytes]
    /\ session_id' = [session_id EXCEPT ![w] = uuid4]
    /\ issued' = issued \cup {uuid4}
    /\ pc' = [pc EXCEPT ![w] = "layer1"]
    /\ UNCHANGED generated
    /\ UNCHANGED << SESSIONS, full_text, uploaded_file, contract_text,
                    clean_response, resp, trace, chatLog >>
    /\ UNCHANGED cleaned

\* a layer without its try/except: a crash on open leaves the function
layer_crash_uncaught(opened) == opened.raises

\* lines 84-96 and 106-116: each layer runs in a try whose except Exception
\* only prints, so no crash of a parser leaves extract_text_from_pdf
layer_crash(opened) == FALSE

(***************************************************************************)
(* extract_text_from_pdf, lines 80-101: layer 1 reads the file at          *)
(* file_path with pdfplumber; sufficient text is returned at once.         *)
(***************************************************************************)
Layer1(w) ==
    /\ pc[w] = "layer1"
    /\ LET doc == files[request[w].filename]
           opened == pdfplumber_pages(doc)
           text == layer_text(opened)
       IN  IF layer_crash(opened)
           THEN Return(w, [status |-> 500])
           ELSE /\ Called(w, [op |-> "pdfplumber", doc |-> doc])
                /\ full_text' = [full_text EXCEPT ![w] = text]
                /\ IF layer1_verified(text)
                   THEN /\ contract_text' = [contract_text EXCEPT ![w] = text]
                        /\ pc' = [pc EXCEPT ![w] = "extracted"]
                   ELSE /\ pc' = [pc EXCEPT ![w] = "layer2"]
                        /\ UNCHANGED contract_text
                /\ UNCHANGED << session_id, uploaded_file, clean_response, resp >>
    /\ UNCHANGED generated
    /\ UNCHANGED << SESSIONS, files, request, chatLog, issued, nRequests >>
    /\ UNCHANGED cleaned

\* a layer 2 that goes on from what layer 1 accumulated
layer2_reset_forgotten(text) == text

\* line 105: full_text = "" before layer 2
layer2_reset(text) == <<>>

\* lines 105-116: layer 2 accumulates onto the reset full_text; a crash on
\* open leaves it as reset
layer2_text(text, opened) ==
    IF opened.raises THEN layer2_reset(text)
    ELSE page_loop(layer2_reset(text), opened.pages)

(***************************************************************************)
(* extract_text_from_pdf, lines 103-120: layer 2 starts from an empty      *)
(* full_text and reads the file with pypdf.                                *)
(***************************************************************************)
Layer2(w) ==
    /\ pc[w] = "layer2"
    /\ LET doc == files[request[w].filename]
           opened == pypdf_pages(doc)
           text == layer2_text(full_text[w], opened)
       IN  IF layer_crash(opened)
           THEN Return(w, [status |-> 500])
           ELSE /\ full_text' = [full_text EXCEPT ![w] = text]
                /\ IF layer2_verified(text)
                   THEN /\ Called(w, [op |-> "pypdf", doc |-> doc])
                        /\ contract_text' = [contract_text EXCEPT ![w] = text]
                        /\ pc' = [pc EXCEPT ![w] = "extracted"]
                   ELSE /\ trace' = [trace EXCEPT ![w] =
                                       @ \o << [op |-> "pypdf", doc |-> doc],
                                               [op |-> "ocr_via_gemini"] >>]
                        /\ pc' = [pc EXCEPT ![w] = "ocr_upload"]
                        /\ UNCHANGED contract_text
                /\ UNCHANGED << session_id, uploaded_file, clean_response, resp >>
    /\ UNCHANGED generated
    /\ UNCHANGED << SESSIONS, files, request, chatLog, issued, nRequests >>
    /\ UNCHANGED cleaned

\* an except branch that returns its log message
ocr_failed_message == <<"O", "C", "R", " ", "F", "a", "i", "l", "e", "d">>

\* ocr_via_gemini, lines 69-71: what the call returns when a step raised
ocr_failed == <<>>

(***************************************************************************)
(* ocr_via_gemini, line 59: genai.upload_file.  It raises, or gives the    *)
(* uploaded file in some state.  Any exception ends the call with "".      *)
(***************************************************************************)
OcrUploadFile(w) ==
    /\ pc[w] = "ocr_upload"
    /\ \E r \in Outcomes(JobStates) :
          /\ Called(w, [op |-> "upload_file", out |-> r])
          /\ IF r.raises
             THEN /\ contract_text' = [contract_text EXCEPT ![w] = ocr_failed]
                  /\ pc' = [pc EXCEPT ![w] = "extracted"]
                  /\ UNCHANGED uploaded_file
             ELSE /\ uploaded_file' = [uploaded_file EXCEPT ![w] = r.value]
                  /\ pc' = [pc EXCEPT ![w] = "ocr_wait"]
                  /\ UNCHANGED contract_text
    /\ UNCHANGED generated
    /\ UNCHANGED << SESSIONS, files, request, session_id, full_text,
                    clean_response, resp, chatLog, issued, nRequests >>
    /\ UNCHANGED cleaned

\* the polls of the call that the history holds
polls(w) == Cardinality({i \in DOMAIN trace[w] : trace[w][i].op = "get_file"})

\* the history after one more poll: it keeps the first MaxPolls - 1 polls of
\* the call and the latest one
polled(w, event) ==
    IF polls(w) < MaxPolls THEN Append(trace[w], event)
    ELSE [trace[w] EXCEPT ![Len(trace[w])] = event]

\* a loop that does not wait
loop_continues_never(state) == FALSE

\* line 61: while uploaded_file.state.name == "PROCESSING"
loop_continues(state) == state = "PROCESSING"

(***************************************************************************)
(* ocr_via_gemini, lines 61-63: one turn of the polling loop.  The loop    *)
(* has no bound on its turns.                                              *)
(***************************************************************************)
OcrPoll(w) ==
    /\ pc[w] = "ocr_wait"
    /\ loop_continues(uploaded_file[w])
    /\ \E r \in Outcomes(JobStates) :
          /\ trace' = [trace EXCEPT ![w] = polled(w, [op |-> "get_file", out |-> r])]
          /\ IF r.raises
             THEN /\ contract_text' = [contract_text EXCEPT ![w] = ocr_failed]
                  /\ pc' = [pc EXCEPT ![w] = "extracted"]
                  /\ UNCHANGED uploaded_file
             ELSE /\ uploaded_file' = [uploaded_file EXCEPT ![w] = r.value]
                  /\ UNCHANGED << pc, contract_text >>
    /\ UNCHANGED generated
    /\ UNCHANGED << SESSIONS, files, request, session_id, full_text,
                    clean_response, resp, chatLog, issued, nRequests >>
    /\ UNCHANGED cleaned

(***************************************************************************)
(* ocr_via_gemini, lines 61-71: the loop is left as soon as the state is   *)
(* not PROCESSING; the transcription request is made and its text          *)
(* returned.  The request or response.text may raise.                      *)
(***************************************************************************)
OcrGenerate(w, texts) ==
    /\ pc[w] = "ocr_wait"
    /\ ~loop_continues(uploaded_file[w])
    /\ \E r \in Outcomes(texts) :
          /\ Called(w, [op |-> "generate_content", out |-> r, state |-> uploaded_file[w]])
          /\ contract_text' = [contract_text EXCEPT ![w] =
                                 IF r.raises THEN ocr_failed ELSE r.value]
    /\ pc' = [pc EXCEPT ![w] = "extracted"]
    /\ Generate(w)
    /\ UNCHANGED << SESSIONS, files, request, session_id, full_text,
                    uploaded_file, clean_response, resp, chatLog, issued,
                    nRequests >>
    /\ UNCHANGED cleaned

\* a store that rebinds SESSIONS to a new dict
store_rebind(sessions, id, session) == [k \in {id} |-> session]

\* SESSIONS[id] = session
store(sessions, id, session) ==
    [k \in DOMAIN sessions \cup {id} |-> IF k = id THEN session ELSE sessions[k]]

\* a test that only asks whether the text is empty
rejected_if_empty(text) == text = <<>>

\* line 142: not contract_text or len(contract_text) < 10
rejected(text) == text = <<>> \/ Len(text) < 10

(***************************************************************************)
(* upload_contract, lines 142-151: reject a text that is empty or shorter  *)
(* than 10, otherwise store the session.                                   *)
(***************************************************************************)
UploadFinish(w) ==
    /\ pc[w] = "extracted"
    /\ IF rejected(contract_text[w])
       THEN /\ Return(w, [status |-> 400])
            /\ UNCHANGED SESSIONS
       ELSE /\ SESSIONS' = store(SESSIONS, session_id[w],
                                 [contract_text |-> contract_text[w],
                                  chat_history |-> <<>>,
                                  filename |-> request[w].filename])
            /\ Return(w, [status |-> 200, session_id |-> session_id[w]])
    /\ UNCHANGED generated
    /\ UNCHANGED << files, request, chatLog, issued, nRequests >>
    /\ UNCHANGED cleaned

\* a lookup that falls back to a default session
not_found_never(sessions, id) == FALSE

\* session = SESSIONS.get(id); if not session: a stored session is a dict
\* with three keys and never falsy
not_found(sessions, id) == id \notin DOMAIN sessions

(***************************************************************************)
(* analyze_risks, lines 155-181: look the session up; 404 when absent.     *)
(***************************************************************************)
AnalyzeStart(w) ==
    /\ Accept(w)
    /\ \E id \in IdInputs :
          /\ request' = [request EXCEPT ![w] = [op |-> "analyze", session_id |-> id]]
          /\ IF not_found(SESSIONS, id)
             THEN Return(w, [status |-> 404])
             ELSE /\ pc' = [pc EXCEPT ![w] = "analyze_generate"]
                  /\ UNCHANGED << session_id, full_text, uploaded_file,
                                  contract_text, clean_response, resp, trace >>
    /\ UNCHANGED generated
    /\ UNCHANGED << SESSIONS, files, chatLog, issued >>
    /\ UNCHANGED cleaned

\* lines 185-186: the text of the answer without fences and asterisks
risks_text(text) ==
    clean_text(replace(replace(strip(text), <<BT, BT, BT, "j", "s", "o", "n">>, <<>>),
                       <<BT, BT, BT>>, <<>>))

\* line 189: the fixed payload '{"risks": []}'
EmptyRisks == <<"{", "\"", "r", "i", "s", "k", "s", "\"", ":", " ", "[", "]", "}">>

\* an except branch that lets the failure leave the handler
analyze_failed_raises == [status |-> 500]

\* lines 188-189: except: return {"risks": '{"risks": []}'}
analyze_failed == [status |-> 200, risks |-> EmptyRisks]

(***************************************************************************)
(* analyze_risks, lines 183-189: the generation request; any exception     *)
(* gives the empty risk list.  The history keeps the outcome of the        *)
(* request until the response is sent.                                     *)
(***************************************************************************)
AnalyzeGenerate(w) ==
    /\ pc[w] = "analyze_generate"
    /\ \E r \in Outcomes(AnalyzeAnswers) :
          /\ resp' = [resp EXCEPT ![w] =
                         IF r.raises THEN analyze_failed
                         ELSE [status |-> 200, risks |-> risks_text(r.value)]]
          /\ Called(w, [op |-> "generate_content", out |-> r])
    /\ pc' = [pc EXCEPT ![w] = "done"]
    /\ Generate(w)
    /\ UNCHANGED << SESSIONS, files, request, session_id, full_text,
                    uploaded_file, contract_text, clean_response, chatLog,
                    issued, nRequests >>
    /\ UNCHANGED cleaned

\* insert(0, message) instead of append
append_chat_front(sessions, id, message) ==
    [sessions EXCEPT ![id].chat_history = <<message>> \o @]

\* chat_history = [message] instead of append
append_chat_overwrite(sessions, id, message) ==
    [sessions EXCEPT ![id].chat_history = <<message>>]

\* session['chat_history'].append(message): one atomic list.append
append_chat(sessions, id, message) ==
    [sessions EXCEPT ![id].chat_history = Append(@, message)]

\* a chat that logs the question before it asks the service
before_generation_logs_user(sessions, id, query) ==
    append_chat(sessions, id, [role |-> "user", content |-> query])

\* lines 197-207: up to the generation request chat only reads the session
before_generation(sessions, id, query) == sessions

(***************************************************************************)
(* chat, lines 193-207: look the session up; 404 when absent.              *)
(***************************************************************************)
ChatStart(w) ==
    /\ Accept(w)
    /\ \E id \in IdInputs, q \in Queries :
          /\ request' = [request EXCEPT ![w] = [op |-> "chat", session_id |-> id, query |-> q]]
          /\ IF not_found(SESSIONS, id)
             THEN /\ Return(w, [status |-> 404])
                  /\ UNCHANGED SESSIONS
             ELSE /\ SESSIONS' = before_generation(SESSIONS, id, q)
                  /\ pc' = [pc EXCEPT ![w] = "chat_generate"]
                  /\ UNCHANGED << session_id, full_text, uploaded_file,
                                  contract_text, clean_response, resp, trace >>
    /\ UNCHANGED generated
    /\ UNCHANGED << files, chatLog, issued >>
    /\ UNCHANGED cleaned

(***************************************************************************)
(* chat, lines 209-210: the generation request and the cleaning of its     *)
(* answer; an exception leaves the handler (500).                          *)
(***************************************************************************)
ChatGenerate(w) ==
    /\ pc[w] = "chat_generate"
    /\ \E r \in Outcomes(ChatAnswers) :
          IF r.raises
          THEN Return(w, [status |-> 500])
          ELSE /\ Called(w, [op |-> "generate_content", out |-> r])
               /\ clean_response' = [clean_response EXCEPT ![w] = clean_text(r.value)]
               /\ pc' = [pc EXCEPT ![w] = "chat_append_user"]
               /\ UNCHANGED << session_id, full_text, uploaded_file,
                               contract_text, resp >>
    /\ Generate(w)
    /\ UNCHANGED << SESSIONS, files, request, chatLog, issued, nRequests >>
    /\ UNCHANGED cleaned

(***************************************************************************)
(* chat, line 212: append the user's message.                              *)
(***************************************************************************)
ChatAppendUser(w) ==
    /\ pc[w] = "chat_append_user"
    /\ SESSIONS' = append_chat(SESSIONS, request[w].session_id,
                               [role |-> "user", content |-> request[w].query])
    /\ pc' = [pc EXCEPT ![w] = "chat_append_ai"]
    /\ UNCHANGED generated
    /\ UNCHANGED << files, request, session_id, full_text, uploaded_file,
                    contract_text, clean_response, resp, trace, chatLog,
                    issued, nRequests >>
    /\ UNCHANGED cleaned

(***************************************************************************)
(* chat, lines 213-215: append the answer and return it.                   *)
(***************************************************************************)
ChatAppendAi(w) ==
    /\ pc[w] = "chat_append_ai"
    /\ SESSIONS' = append_chat(SESSIONS, request[w].session_id,
                               [role |-> "ai", content |-> clean_response[w]])
    /\ Return(w, [status |-> 200, response |-> clean_response[w]])
    /\ chatLog' = Append(chatLog, [session_id |-> request[w].session_id,
                                   query |-> request[w].query,
                                   answer |-> trace[w][Len(trace[w])].out.value])
    /\ UNCHANGED generated
    /\ UNCHANGED << files, request, issued, nRequests >>
    /\ UNCHANGED cleaned

\* an except branch that answers with an empty rewrite
rewrite_failed_swallowed == [status |-> 200, rewritten |-> <<>>]

\* lines 235-236: except Exception: raise HTTPException(500, "Rewrite failed")
rewrite_failed == [status |-> 500]

(***************************************************************************)
(* rewrite_clause, lines 219-236: one generation request; an exception     *)
(* gives 500.  The handler names no session.  The history keeps the        *)
(* outcome of the request until the response is sent.                      *)
(***************************************************************************)
RewriteClause(w) ==
    /\ Accept(w)
    /\ \E clause \in Clauses, r \in Outcomes(ChatAnswers) :
          /\ request' = [request EXCEPT ![w] = [op |-> "rewrite", clause_text |-> clause]]
          /\ resp' = [resp EXCEPT ![w] =
                         IF r.raises THEN rewrite_failed
                         ELSE [status |-> 200, rewritten |-> clean_text(r.value)]]
          /\ Called(w, [op |-> "generate_content", out |-> r])
    /\ pc' = [pc EXCEPT ![w] = "done"]
    /\ Generate(w)
    /\ UNCHANGED << SESSIONS, files, session_id, full_text, uploaded_file,
                    contract_text, clean_response, chatLog, issued >>
    /\ UNCHANGED cleaned

(***************************************************************************)
(* The transport sends the response; the worker is free again.             *)
(***************************************************************************)
Respond(w) ==
    /\ pc[w] = "done"
    /\ pc' = [pc EXCEPT ![w] = "idle"]
    /\ request' = [request EXCEPT ![w] = NoRequest]
    /\ resp' = [resp EXCEPT ![w] = NoResp]
    /\ generated' = [generated EXCEPT ![w] = FALSE]
    /\ trace' = [trace EXCEPT ![w] = <<>>]
    /\ UNCHANGED << SESSIONS, files, session_id, full_text, uploaded_file,
                    contract_text, clean_response, chatLog, issued,
                    nRequests >>
    /\ UNCHANGED cleaned

\* one step of worker w, the uploaded documents drawn from docs and the
\* transcriptions from texts
Step(w, docs, texts) ==
    \/ UploadStart(w, docs)
    \/ Layer1(w)
    \/ Layer2(w)
    \/ OcrUploadFile(w)
    \/ OcrPoll(w)
    \/ OcrGenerate(w, texts)
    \/ UploadFinish(w)
    \/ AnalyzeStart(w)
    \/ AnalyzeGenerate(w)
    \/ ChatStart(w)
    \/ ChatGenerate(w)
    \/ ChatAppendUser(w)
    \/ ChatAppendAi(w)
    \/ RewriteClause(w)
    \/ Respond(w)

\* the handlers run concurrently on the workers of the pool
Next == \E w \in Workers : Step(w, ConcDocs, ConcOcrTexts)

Spec == Init /\ [][Next]_vars

\* the requests arrive one after another: a request is accepted and handled
\* only while no other request is being handled
NextSeq ==
    \E w \in Workers :
       /\ \A v \in Workers \ {w} : pc[v] = "idle"
       /\ Step(w, Docs, OcrTexts)

SpecSeq == Init /\ [][NextSeq]_vars

\* a step of an upload that has begun, other than a turn of the polling
\* loop: the thread is scheduled and the call it makes returns or raises
Uploading(w, texts) ==
    \/ Layer1(w)
    \/ Layer2(w)
    \/ OcrUploadFile(w)
    \/ OcrGenerate(w, texts)
    \/ UploadFinish(w)
    \/ Respond(w)

\* uploads, one after another
NextUpload ==
    \E w \in Workers :
       /\ \A v \in Workers \ {w} : pc[v] = "idle"
       /\ \/ UploadStart(w, Docs)
          \/ OcrPoll(w)
          \/ Uploading(w, OcrTexts)

\* the uploads with threads that keep running: an upload that has begun
\* takes its next step.  Nothing makes a poll return a state other than
\* PROCESSING, and nothing makes a client send a request.
SpecLive ==
    /\ Init
    /\ [][NextUpload]_vars
    /\ \A w \in Workers : WF_vars(Uploading(w, OcrTexts))

(***************************************************************************)
(* clean_text alone, applied to every text over Alphabet of length at most *)
(* MaxLen, and applied again to its own result.                            *)
(***************************************************************************)
Alphabet == {"*", " ", "\n", "a"}
Texts == UNION {[1..k -> Alphabet] : k \in 0..MaxLen}

InitClean == Constructed /\ cleaned \in {<<x>> : x \in Texts}

CleanText ==
    /\ Len(cleaned) < 3
    /\ cleaned' = Append(cleaned, clean_text(cleaned[Len(cleaned)]))
    /\ UNCHANGED << SESSIONS, files, pc, request, session_id, full_text,
                    uploaded_file, contract_text, clean_response, resp, trace,
                    generated, chatLog, issued, nRequests >>

SpecClean == InitClean /\ [][CleanText]_vars

(***************************************************************************)
(* Properties.                                                             *)
(***************************************************************************)
ops(w) == [i \in DOMAIN trace[w] |-> trace[w][i].op]
count(seq, x) == Cardinality({i \in DOMAIN seq : seq[i] = x})
last(w) == trace[w][Len(trace[w])]
primary_text(doc) == layer_text(pdfplumber_pages(doc))
secondary_text(doc) == layer_text(pypdf_pages(doc))
RemoteOps == {"upload_file", "get_file", "generate_content"}
IsPrefix(s, t) == Len(s) <= Len(t) /\ SubSeq(t, 1, Len(s)) = s

\* C1: cost gate.  Whenever layer 1 (pdfplumber) read a document whose
\* aggregate text has trimmed length > 50, extract_text_from_pdf has returned
\* exactly that text and called neither pypdf nor ocr_via_gemini.
C1_CostGate ==
    \A w \in Workers :
        ( /\ request[w].op = "upload"
          /\ trace[w] # <<>>
          /\ Len(strip(primary_text(trace[w][1].doc))) > 50 )
        => /\ pc[w] = "extracted"
           /\ ops(w) = << "pdfplumber" >>
           /\ contract_text[w] = primary_text(trace[w][1].doc)

C1_Witness ==
    \E w \in Workers :
        /\ pc[w] = "extracted"
        /\ ops(w) = << "pdfplumber" >>
        /\ Len(strip(contract_text[w])) = 51
        /\ Len(contract_text[w]) = 52

\* C2: escalation.  When both local layers give a text of trimmed length
\* <= 50 for the uploaded document (crashes included), extract_text_from_pdf
\* has called pdfplumber, then pypdf, then ocr_via_gemini exactly once, and
\* returns what ocr_via_gemini returned: the transcription, or "" when a step
\* of it raised.
C2_Escalation ==
    \A w \in Workers :
        ( /\ request[w].op = "upload"
          /\ pc[w] = "extracted"
          /\ Len(strip(primary_text(request[w].file))) <= 50
          /\ Len(strip(secondary_text(request[w].file))) <= 50 )
        => /\ Len(trace[w]) >= 4
           /\ SubSeq(ops(w), 1, 3) = << "pdfplumber", "pypdf", "ocr_via_gemini" >>
           /\ count(ops(w), "ocr_via_gemini") = 1
           /\ count(ops(w), "pdfplumber") = 1
           /\ count(ops(w), "pypdf") = 1
           /\ last(w).op \in RemoteOps
           /\ last(w).op # "generate_content" => last(w).out.raises
           /\ contract_text[w] = IF last(w).out.raises THEN <<>> ELSE last(w).out.value

C2_Witness ==
    \E w \in Workers :
        /\ pc[w] = "extracted"
        /\ request[w].file = "corrupt"
        /\ last(w).op = "generate_content"
        /\ contract_text[w] = Rep("c", 10)

\* C3 (as claimed): an upload succeeds, and creates its session, exactly when
\* the extracted text is not empty and has length >= 10 after trimming;
\* otherwise it is rejected with 400 and creates no session.
C3_SuccessIffTrimmedLength ==
    [][ \A w \in Workers :
          (pc[w] = "extracted" /\ pc'[w] = "done")
          => IF contract_text[w] # <<>> /\ Len(strip(contract_text[w])) >= 10
             THEN /\ resp'[w].status = 200
                  /\ session_id[w] \in DOMAIN SESSIONS'
             ELSE /\ resp'[w].status = 400
                  /\ SESSIONS' = SESSIONS ]_vars

\* C4 (amended): when both local layers give a text of trimmed length <= 50
\* and the text the cloud tier returned is empty or shorter than 10
\* characters, the upload is rejected with 400 and SESSIONS is unchanged.
C4_ExhaustedRejected ==
    [][ \A w \in Workers :
          ( /\ pc[w] = "extracted" /\ pc'[w] = "done"
            /\ Len(strip(primary_text(request[w].file))) <= 50
            /\ Len(strip(secondary_text(request[w].file))) <= 50
            /\ Len(contract_text[w]) < 10 )
          => /\ resp'[w].status = 400
             /\ SESSIONS' = SESSIONS ]_vars

\* C4 (as claimed): the same with a cloud text that fails the 50-character
\* sufficiency threshold.
C4_AsClaimed ==
    [][ \A w \in Workers :
          ( /\ pc[w] = "extracted" /\ pc'[w] = "done"
            /\ Len(strip(primary_text(request[w].file))) <= 50
            /\ Len(strip(secondary_text(request[w].file))) <= 50
            /\ Len(strip(contract_text[w])) <= 50 )
          => /\ resp'[w].status = 400
             /\ SESSIONS' = SESSIONS ]_vars

C4_Witness ==
    \E w \in Workers :
        /\ pc[w] = "done"
        /\ request[w].op = "upload"
        /\ Len(strip(primary_text(request[w].file))) <= 50
        /\ Len(strip(secondary_text(request[w].file))) <= 50
        /\ generated[w]
        /\ resp[w].status = 400

\* the history that the chat calls of log on session id leave, in call order
RECURSIVE expected_history(_, _)
expected_history(log, id) ==
    IF log = <<>> THEN <<>>
    ELSE (IF Head(log).session_id = id
          THEN << [role |-> "user", content |-> Head(log).query],
                  [role |-> "ai", content |-> clean_text(Head(log).answer)] >>
          ELSE <<>>)
         \o expected_history(Tail(log), id)

appending(id) ==
    {w \in Workers : pc[w] = "chat_append_ai" /\ request[w].session_id = id}

\* C5: history ordering.  With the requests handled one after another, after
\* K chat calls on a session returned, its chat_history has length 2K and is
\* user:Q1, ai:A1, ..., user:QK, ai:AK in call order, A the cleaned answer.
C5_HistoryOrdering ==
    \A id \in DOMAIN SESSIONS :
        appending(id) = {}
        => SESSIONS[id].chat_history = expected_history(chatLog, id)

C5_Witness ==
    \E id \in DOMAIN SESSIONS :
        /\ appending(id) = {}
        /\ Len(SESSIONS[id].chat_history) = 4
        /\ SESSIONS[id].chat_history[1].content # SESSIONS[id].chat_history[3].content
        /\ SESSIONS[id].chat_history[2].content # SESSIONS[id].chat_history[4].content

\* C6: not found.  An analyze or chat request whose session id is not a key
\* of SESSIONS returns 404 in that step, without a text-generation request,
\* and leaves SESSIONS as it was.
C6_NotFound ==
    [][ \A w \in Workers :
          ( /\ pc[w] = "idle" /\ pc'[w] # "idle"
            /\ request'[w].op \in {"analyze", "chat"}
            /\ request'[w].session_id \notin DOMAIN SESSIONS )
          => /\ pc'[w] = "done"
             /\ resp'[w] = [status |-> 404]
             /\ ~generated'[w]
             /\ SESSIONS' = SESSIONS ]_vars

C6_Witness ==
    \E w \in Workers :
        /\ pc[w] = "done"
        /\ request[w].op = "chat"
        /\ request[w].session_id \notin DOMAIN SESSIONS
        /\ resp[w].status = 404
        /\ \E id \in DOMAIN SESSIONS : SESSIONS[id].chat_history # <<>>

\* C7: no lost message.  Under every interleaving, the chat_history of a
\* session holds the two messages of every chat call that returned, as often
\* as calls left them, and nothing else but the user message of a call that
\* is between its two appends.
C7_NoLostMessage ==
    \A id \in DOMAIN SESSIONS :
        LET h == SESSIONS[id].chat_history
            e == expected_history(chatLog, id)
        IN  /\ \A i \in DOMAIN e : count(h, e[i]) >= count(e, e[i])
            /\ Len(h) = Len(e) + Cardinality(appending(id))

C7_Witness ==
    \E id \in DOMAIN SESSIONS :
        /\ Len(chatLog) = 2
        /\ Len(SESSIONS[id].chat_history) = 4
        /\ SESSIONS[id].chat_history[1].role = "user"
        /\ SESSIONS[id].chat_history[2].role = "user"

\* C8: persistence.  In every step, every session of SESSIONS stays in
\* SESSIONS with the same contract_text and filename, and its chat_history
\* before the step is a prefix of its chat_history after the step.
C8_Persistence ==
    [][ \A id \in DOMAIN SESSIONS :
          /\ id \in DOMAIN SESSIONS'
          /\ SESSIONS'[id].contract_text = SESSIONS[id].contract_text
          /\ SESSIONS'[id].filename = SESSIONS[id].filename
          /\ IsPrefix(SESSIONS[id].chat_history, SESSIONS'[id].chat_history) ]_vars

C8_Witness ==
    /\ Cardinality(DOMAIN SESSIONS) = 2
    /\ \E id \in DOMAIN SESSIONS : SESSIONS[id].chat_history # <<>>
    /\ \E w \in Workers : pc[w] = "chat_append_ai"

\* C9 (as claimed): ocr_via_gemini makes the transcription request only for
\* an uploaded file in state READY, and returns "" for one in state FAILED.
C9_OnlyReadyTranscribed ==
    \A w \in Workers :
        (request[w].op = "upload" /\ pc[w] = "extracted" /\ Len(trace[w]) >= 4)
        => /\ last(w).op = "generate_content" => last(w).state = "READY"
           /\ uploaded_file[w] = "FAILED" => contract_text[w] = <<>>

\* C10: failure absorption.  One ocr_via_gemini call uploads the document at
\* most once and makes the transcription request at most once; when a step
\* of it raised, that was its last step and the call has returned "".
C10_FailureAbsorbed ==
    \A w \in Workers :
        request[w].op = "upload"
        => /\ count(ops(w), "upload_file") <= 1
           /\ count(ops(w), "generate_content") <= 1
           /\ \A i \in DOMAIN trace[w] :
                 (trace[w][i].op \in RemoteOps /\ trace[w][i].out.raises)
                 => /\ i = Len(trace[w])
                    /\ pc[w] = "extracted"
                    /\ contract_text[w] = <<>>

C10_Witness ==
    \E w \in Workers :
        /\ pc[w] = "extracted"
        /\ Len(trace[w]) >= 5
        /\ last(w).op = "get_file"
        /\ last(w).out.raises
        /\ contract_text[w] = <<>>

\* the steps of extract_text_from_pdf and of the ocr_via_gemini it calls
Extracting == {"layer1", "layer2", "ocr_upload", "ocr_wait"}

\* C11: total extraction.  Whatever pages fail, whichever parser crashes on
\* open and whichever remote call raises, no step of extract_text_from_pdf
\* leaves the handler with an error: the function goes on or returns, what it
\* returns is a text, and it is the empty text when the pdfplumber tier and
\* the pypdf tier crashed on open and a call of the cloud tier raised.
C11_NeverRaises ==
    [][ \A w \in Workers :
          pc[w] \in Extracting
          => /\ pc'[w] \in Extracting \cup {"extracted"}
             /\ resp'[w] = NoResp
             /\ pc'[w] = "extracted"
                => /\ DOMAIN contract_text'[w] = 1..Len(contract_text'[w])
                   /\ ( /\ pdfplumber_pages(request[w].file).raises
                        /\ pypdf_pages(request[w].file).raises
                        /\ trace'[w][Len(trace'[w])].op \in RemoteOps
                        /\ trace'[w][Len(trace'[w])].out.raises )
                      => contract_text'[w] = <<>> ]_vars

C11_Witness ==
    \E w \in Workers :
        /\ pc[w] = "extracted"
        /\ pdfplumber_pages(request[w].file).raises
        /\ pypdf_pages(request[w].file).raises
        /\ last(w).op = "generate_content"
        /\ last(w).out.raises
        /\ contract_text[w] = <<>>

\* the worker polls a file that is still PROCESSING
Polling(w) == pc[w] = "ocr_wait" /\ uploaded_file[w] = "PROCESSING"

\* C12: polling.  ocr_via_gemini makes the transcription request only
\* directly after an upload_file or get_file that returned a state other than
\* PROCESSING; and unless the file stays PROCESSING for ever with no call
\* raising, an ocr_via_gemini call that began returns and the upload is
\* answered.
C12_PollingTerminates ==
    /\ [](\A w \in Workers :
            request[w].op = "upload"
            => \A i \in DOMAIN trace[w] :
                  trace[w][i].op = "generate_content"
                  => /\ trace[w][i].state # "PROCESSING"
                     /\ trace[w][i - 1].op \in {"upload_file", "get_file"}
                     /\ ~trace[w][i - 1].out.raises
                     /\ trace[w][i - 1].out.value = trace[w][i].state)
    /\ \A w \in Workers :
          \/ <>[]Polling(w)
          \/ (pc[w] = "ocr_upload") ~> (pc[w] = "done")

\* C12 without the assumption: every ocr_via_gemini call that began returns.
C12_AlwaysTerminates ==
    \A w \in Workers : (pc[w] = "ocr_upload") ~> (pc[w] = "done")

C12_Witness ==
    \E w \in Workers :
        /\ Polling(w)
        /\ polls(w) = MaxPolls
        /\ last(w).out.value = "PROCESSING"

\* the uploads that the step answers with 200
stored_by_step ==
    {w \in Workers : pc[w] = "extracted" /\ pc'[w] = "done" /\ resp'[w].status = 200}

\* C13: session uniqueness.  Under every interleaving, an upload answered
\* with 200 returns a session id that was not a key of SESSIONS, the step adds
\* exactly that key, and no other step changes the keys: the ids returned are
\* pairwise distinct, no upload overwrites a session, and there are as many
\* sessions as uploads answered with 200.
C13_SessionUniqueness ==
    [][ /\ \A w \in stored_by_step : resp'[w].session_id \notin DOMAIN SESSIONS
        /\ DOMAIN SESSIONS' =
              DOMAIN SESSIONS \cup {resp'[w].session_id : w \in stored_by_step} ]_vars

C13_Witness ==
    \E w \in Workers :
        /\ pc[w] = "done"
        /\ request[w].op = "upload"
        /\ resp[w].status = 200
        /\ resp[w].session_id = 1
        /\ DOMAIN SESSIONS = {1, 2}

\* C14: analyze leniency.  An analyze request on an existing session is
\* answered with 200 whatever the generation request does: with the fixed
\* payload '{"risks": []}' when it raised, with the cleaned answer otherwise;
\* and no step of an analyze request changes SESSIONS.
C14_AnalyzeLenient ==
    [][ \A w \in Workers :
          /\ (pc[w] = "idle" /\ request'[w].op = "analyze") => SESSIONS' = SESSIONS
          /\ (pc[w] = "analyze_generate" /\ pc'[w] # "analyze_generate")
             => /\ pc'[w] = "done"
                /\ resp'[w].status = 200
                /\ resp'[w].risks =
                      IF trace'[w][1].out.raises THEN EmptyRisks
                      ELSE risks_text(trace'[w][1].out.value)
                /\ SESSIONS' = SESSIONS ]_vars

C14_Witness ==
    \E w \in Workers :
        /\ pc[w] = "done"
        /\ request[w].op = "analyze"
        /\ resp[w] = [status |-> 200, risks |-> EmptyRisks]
        /\ trace[w][1].out.raises
        /\ \E id \in DOMAIN SESSIONS : SESSIONS[id].chat_history # <<>>

\* C15: rewrite is stateless.  A rewrite request is answered in one step
\* that leaves SESSIONS as it was: with 500 when the generation request
\* raised, with the cleaned answer otherwise.
C15_RewriteStateless ==
    [][ \A w \in Workers :
          (pc[w] = "idle" /\ request'[w].op = "rewrite")
          => /\ SESSIONS' = SESSIONS
             /\ pc'[w] = "done"
             /\ resp'[w] =
                   IF trace'[w][1].out.raises THEN [status |-> 500]
                   ELSE [status |-> 200,
                         rewritten |-> clean_text(trace'[w][1].out.value)] ]_vars

C15_Witness ==
    \E w \in Workers :
        /\ pc[w] = "done"
        /\ request[w].op = "rewrite"
        /\ resp[w].status = 500
        /\ \E id \in DOMAIN SESSIONS : Len(SESSIONS[id].chat_history) = 1

\* C16: idempotent cleaning.  For every text x, clean_text(x) holds no '*',
\* neither starts nor ends with a whitespace character, and
\* clean_text(clean_text(x)) = clean_text(x).
C16_CleanIdempotent ==
    \A i \in 2..Len(cleaned) :
        /\ \A k \in DOMAIN cleaned[i] : cleaned[i][k] # "*"
        /\ cleaned[i] # <<>>
           => /\ cleaned[i][1] \notin Whitespace
              /\ cleaned[i][Len(cleaned[i])] \notin Whitespace
        /\ i = 3 => cleaned[3] = cleaned[2]

C16_Witness ==
    /\ Len(cleaned) = 3
    /\ Len(cleaned[1]) = 4
    /\ cleaned[1][1] = "*"
    /\ cleaned[1][2] = " "
    /\ cleaned[1][4] = "\n"
    /\ cleaned[2] = <<"a">>

\* the chat calls on session id that are past the lookup and have not returned
chatting(id) ==
    {w \in Workers : /\ pc[w] \in {"chat_generate", "chat_append_user", "chat_append_ai"}
                     /\ request[w].session_id = id}

\* C17 (as claimed): history alternation under concurrency.  In every state
\* with no chat call in flight on a session, its chat_history has even
\* length, the messages alternate user, ai, and every user message is
\* directly followed by the answer of the same call.
C17_Alternation ==
    \A id \in DOMAIN SESSIONS :
        chatting(id) = {}
        => LET h == SESSIONS[id].chat_history
           IN  /\ Len(h) % 2 = 0
               /\ \A i \in DOMAIN h : h[i].role = IF i % 2 = 1 THEN "user" ELSE "ai"
               /\ \A i \in DOMAIN h :
                     i % 2 = 1
                     => \E k \in DOMAIN chatLog :
                           /\ chatLog[k].session_id = id
                           /\ chatLog[k].query = h[i].content
                           /\ clean_text(chatLog[k].answer) = h[i + 1].content

\* C18: single-tier result.  pypdf runs only for a document whose pdfplumber
\* text has trimmed length <= 50; what extract_text_from_pdf returns is the
\* text of one tier alone: the pdfplumber text, or the pypdf text with
\* nothing of the pdfplumber text before it, or what ocr_via_gemini returned;
\* and a pypdf text of trimmed length > 50 is returned without a call of
\* ocr_via_gemini.
C18_SingleTier ==
    \A w \in Workers :
        request[w].op = "upload"
        => LET doc == request[w].file
           IN  /\ count(ops(w), "pypdf") > 0 => Len(strip(primary_text(doc))) <= 50
               /\ pc[w] = "extracted"
                  => /\ ops(w) = << "pdfplumber" >>
                        => contract_text[w] = primary_text(doc)
                     /\ ops(w) = << "pdfplumber", "pypdf" >>
                        => contract_text[w] = secondary_text(doc)
                     /\ Len(trace[w]) > 2
                        => contract_text[w] =
                              IF last(w).out.raises THEN <<>> ELSE last(w).out.value
                     /\ ( /\ Len(strip(primary_text(doc))) <= 50
                          /\ Len(strip(secondary_text(doc))) > 50 )
                        => /\ ops(w) = << "pdfplumber", "pypdf" >>
                           /\ contract_text[w] = secondary_text(doc)
                           /\ ~generated[w]

C18_Witness ==
    \E w \in Workers :
        /\ pc[w] = "extracted"
        /\ ops(w) = << "pdfplumber", "pypdf" >>
        /\ primary_text(request[w].file) # <<>>
        /\ contract_text[w] = secondary_text(request[w].file)

\* C19: chat failure leaves the history untouched.  With the requests
\* handled one after another: a chat call changes nothing in SESSIONS up to
\* and including its generation request; when that request raises the call
\* ends with 500 in that step, and the chat_history of its session is as it
\* was before the call, of even length.
C19_FailedChatFrame ==
    [][ \A w \in Workers :
          /\ (pc[w] = "idle" /\ request'[w].op = "chat") => SESSIONS' = SESSIONS
          /\ pc[w] = "chat_generate"
             => /\ SESSIONS' = SESSIONS
                /\ \/ pc'[w] = "chat_generate"
                   \/ /\ pc'[w] = "chat_append_user"
                      /\ ~trace'[w][1].out.raises
                   \/ /\ pc'[w] = "done"
                      /\ resp'[w] = [status |-> 500]
                      /\ Len(SESSIONS'[request[w].session_id].chat_history) % 2 = 0 ]_vars

C19_Witness ==
    \E w \in Workers :
        /\ pc[w] = "done"
        /\ request[w].op = "chat"
        /\ resp[w].status = 500
        /\ Len(SESSIONS[request[w].session_id].chat_history) = 2

\* C20 (as claimed): document isolation.  Under every interleaving, an
\* upload answered with 200 has read, in each local tier it ran, the bytes of
\* its own request, and the contract_text it stores is the text of those
\* bytes.
C20_DocumentIsolation ==
    [][ \A w \in stored_by_step :
          LET doc == request[w].file
              text == SESSIONS'[resp'[w].session_id].contract_text
          IN  /\ \A i \in DOMAIN trace[w] :
                    trace[w][i].op \in {"pdfplumber", "pypdf"} => trace[w][i].doc = doc
              /\ ops(w) = << "pdfplumber" >> => text = primary_text(doc)
              /\ ops(w) = << "pdfplumber", "pypdf" >> => text = secondary_text(doc) ]_vars

====
